---- MODULE Spec2Model ----
(***************************************************************************)
(* Dynamic external rendering adapter layer of metodos_prova.              *)
(*                                                                         *)
(* App (src/metodos_de_prova/src/App.tsx) injects a stylesheet and three   *)
(* scripts, keeps one readiness flag per script, and gates the page        *)
(* content on the three flags.  The pages mount two adapters:              *)
(* KaTeXRenderer and MermaidDiagram.  src/unnamed/part_000 is an earlier   *)
(* variant of the same file (two scripts, gate on katexLoaded only, a      *)
(* MermaidDiagram without the isMermaidLoaded prop); its definitions       *)
(* carry the prefix Legacy.                                                *)
(*                                                                         *)
(* React's scheduling is modelled as follows.  A state update and the      *)
(* commit of the render it causes are one step.  The passive effects of a  *)
(* commit are a later step (effectPending), and React flushes them before  *)
(* it processes any further update, so every step that updates React       *)
(* state is guarded by ~effectPending.  A state setter called for an       *)
(* unmounted instance changes nothing.                                     *)
(***************************************************************************)
EXTENDS Integers, FiniteSets, Sequences, TLC

VARIABLES
    \* ---- App (App.tsx 569-664) ----
    appMounted,      \* an App instance is mounted
    mounts,          \* number of App mounts so far; names the current instance
    currentPage,     \* useState('home')
    katexLoaded,     \* useState(false)
    mermaidLoaded,   \* useState(false)
    tailwindLoaded,  \* useState(false)
    isOpen,          \* Navbar's useState(false)
    shown,           \* what renderPage returned at the last commit
    \* ---- document and runtime environment ----
    attached,        \* elements in the document: <<mount number, element name>>
    loadState,       \* per script of the current instance: idle/pending/loaded/failed
    orphans,         \* detached scripts of torn-down instances still loading
    windowKatex,     \* window.katex is defined
    windowMermaid,   \* window.mermaid is defined
    initCalls,       \* number of window.mermaid.initialize calls so far
    \* ---- adapters of the shown page ----
    effectPending,   \* passive effects of the last commit not yet flushed
    mathTargets,     \* number of KaTeXRenderer targets the engine has filled
    \* ---- MermaidDiagram (App.tsx 51-97) ----
    diagMounted,     \* a MermaidDiagram instance is mounted
    chart,           \* prop chart
    isMermaidLoaded, \* prop isMermaidLoaded
    renderError,     \* useState<string | null>(null)
    diagramSvg,      \* useState<string | null>(null)
    inflight,        \* engine render calls whose promise has not settled:
                     \* [live, n, id, chart]; live = issued by the mounted instance
    renderSeq,       \* number of render calls the current instance has issued
    issuedNow,       \* the last effect run issued a render call
    waited,          \* an effect run of this instance found chart set, engine not ready
    \* ---- MermaidDiagram of part_000 (51-86) ----
    svg,             \* useState('')
    mermaidReady,    \* useState(false)
    pendingEffects,  \* which of its two effects the last commit scheduled
    \* ---- KaTeXRenderer instances (App.tsx 20-41) ----
    kMounted,        \* the instances that are mounted
    kProps,          \* per instance: props math and displayMode
    kTarget,         \* per instance: innerHTML of its <span ref={ref} />
    kEffect,         \* instances whose effect is scheduled and has not run
    kThrown,         \* per instance: how the engine call of its last effect run
                     \* ended: not made, returned, or what it threw
    kEscaped,        \* an exception has left a KaTeXRenderer effect
    kCalls,          \* the engine calls of the last KaTeXRenderer step, in order
    kRuns,           \* per instance: effect runs since its mount
    kFirst,          \* per instance: the first pair the engine rendered for it
                     \* and the target's content right after that render
    \* ---- App of part_000 (551-627) ----
    cleanupThrew     \* a cleanup of App's effect has raised an error

appVars == <<appMounted, mounts, currentPage, katexLoaded, mermaidLoaded,
             tailwindLoaded, isOpen, shown>>
envVars == <<attached, loadState, orphans, windowKatex, windowMermaid, initCalls>>
diagVars == <<diagMounted, chart, isMermaidLoaded, renderError,
              diagramSvg, inflight, renderSeq, issuedNow, waited>>
legacyVars == <<svg, mermaidReady, pendingEffects>>
katexVars == <<kMounted, kProps, kTarget, kEffect, kThrown, kEscaped, kCalls,
               kRuns, kFirst>>
vars == <<appVars, envVars, effectPending, mathTargets, diagVars, legacyVars,
          katexVars, cleanupThrew>>

(***************************************************************************)
(* Bounds of the model.                                                    *)
(***************************************************************************)
\* how many times the App scope is entered in one run
MaxMounts == 2
\* how many render calls one MermaidDiagram instance issues in one run
MaxRenders == 3
\* how many times the effect of one KaTeXRenderer instance runs in one run
MaxKRuns == 3

(***************************************************************************)
(* Values.                                                                 *)
(***************************************************************************)
NULL == "null"

\* JavaScript truthiness of a string | null state value
Truthy(v) == v # NULL /\ v # ""

Scripts == {"scriptKatex", "scriptMermaid", "scriptTailwind"}

Elements == {"linkKatex"} \cup Scripts

navItems == {"home", "direct", "contraexample", "absurd", "contrapositive", "induction"}

MethodPages == navItems \ {"home"}

\* the diagram prop each method page passes to MethodPageLayout
DiagramOf(page) ==
    CASE page = "direct" -> "graph TD direct"
      [] page = "contraexample" -> "graph TD contraexample"
      [] page = "absurd" -> "graph TD absurd"
      [] page = "contrapositive" -> "graph TD contrapositive"
      [] page = "induction" -> "graph TD induction"
      [] OTHER -> ""

\* the number of KaTeXRenderer elements each page holds
MathCount(page) ==
    CASE page = "direct" -> 1
      [] page = "contraexample" -> 1
      [] page = "absurd" -> 8
      [] page = "contrapositive" -> 3
      [] page = "induction" -> 2
      [] OTHER -> 0

\* what the diagram engine resolves a render call with
SvgOf(c) == "<svg>" \o c \o "</svg>"

ErrRender == "Erro ao renderizar diagrama."

ErrNoChart == "Nenhum diagrama Mermaid fornecido."

(***************************************************************************)
(* MermaidDiagram, App.tsx 51-97.                                          *)
(***************************************************************************)
\* mermaidRef is given only to the <div> of the diagramSvg branch (84-91),
\* so mermaidRef.current is set exactly while that branch is what is rendered
mermaidRefCurrent == diagMounted /\ ~Truthy(renderError) /\ Truthy(diagramSvg)

\* the branch the component renders (82-96)
Display ==
    IF Truthy(renderError) THEN "error"
    ELSE IF Truthy(diagramSvg) THEN "svg"
    ELSE "waiting"

\* the two variable parts of uniqueId (62): the value of Date.now() and the
\* digits of Math.random(); either may come out the same in two calls
Timestamps == {"t1", "t2"}

RandomSuffixes == {"r1", "r2"}

uniqueId(t, r) == <<"mermaid-chart", t, r>>

\* first branch of the effect (58-71): clear, then call the engine
EffectRenderBranch ==
    /\ renderSeq < MaxRenders
    /\ renderError' = NULL
    /\ diagramSvg' = NULL
    /\ \E t \in Timestamps, r \in RandomSuffixes :
         inflight' = inflight \cup
             {[live |-> TRUE, n |-> renderSeq + 1,
               id |-> uniqueId(t, r), chart |-> chart]}
    /\ renderSeq' = renderSeq + 1
    /\ issuedNow' = TRUE

EffectNotLoadedBranch_KeepsError ==
    /\ diagramSvg' = NULL
    /\ issuedNow' = FALSE
    /\ UNCHANGED <<renderError, inflight, renderSeq>>

\* second branch (72-75): the engine is not loaded
EffectNotLoadedBranch ==
    /\ renderError' = NULL
    /\ diagramSvg' = NULL
    /\ issuedNow' = FALSE
    /\ UNCHANGED <<inflight, renderSeq>>

\* a third branch that stores an empty drawing next to the message
EffectNoChartBranch_StoresSvg ==
    /\ renderError' = ErrNoChart
    /\ diagramSvg' = SvgOf("")
    /\ issuedNow' = FALSE
    /\ UNCHANGED <<inflight, renderSeq>>

\* a third branch that waits without a message
EffectNoChartBranch_Waits ==
    /\ renderError' = NULL
    /\ diagramSvg' = NULL
    /\ issuedNow' = FALSE
    /\ UNCHANGED <<inflight, renderSeq>>

\* third branch (76-79): no chart
EffectNoChartBranch ==
    /\ renderError' = ErrNoChart
    /\ diagramSvg' = NULL
    /\ issuedNow' = FALSE
    /\ UNCHANGED <<inflight, renderSeq>>

\* the effect body (56-80), run with the props of the committed render
MermaidDiagramEffect ==
    /\ waited' = (waited \/ (chart # "" /\ ~isMermaidLoaded))
    /\ IF isMermaidLoaded /\ windowMermaid /\ mermaidRefCurrent /\ chart # ""
       THEN EffectRenderBranch
       ELSE IF ~isMermaidLoaded
       THEN EffectNotLoadedBranch
       ELSE IF chart = ""
       THEN EffectNoChartBranch
       ELSE /\ issuedNow' = FALSE
            /\ UNCHANGED <<renderError, diagramSvg, inflight, renderSeq>>
    /\ UNCHANGED <<diagMounted, chart, isMermaidLoaded>>

\* .then(({ svg }) => setDiagramSvg(svg)) (65-67)
ThenCallback(j) ==
    /\ j \in inflight
    /\ inflight' = inflight \ {j}
    /\ diagramSvg' = IF j.live THEN SvgOf(j.chart) ELSE diagramSvg
    /\ UNCHANGED <<diagMounted, chart, isMermaidLoaded, renderError, renderSeq,
                   issuedNow, waited>>
    /\ UNCHANGED katexVars
    /\ UNCHANGED cleanupThrew

\* .catch(error => setRenderError('Erro ao renderizar diagrama.')) (68-71)
CatchCallback(j) ==
    /\ j \in inflight
    /\ inflight' = inflight \ {j}
    /\ renderError' = IF j.live THEN ErrRender ELSE renderError
    /\ UNCHANGED <<diagMounted, chart, isMermaidLoaded, diagramSvg, renderSeq,
                   issuedNow, waited>>
    /\ UNCHANGED katexVars
    /\ UNCHANGED cleanupThrew

\* a parent commits <MermaidDiagram chart={c} isMermaidLoaded={l} /> for the first time
MountDiagram(c, l) ==
    /\ diagMounted' = TRUE
    /\ chart' = c
    /\ isMermaidLoaded' = l
    /\ renderError' = NULL
    /\ diagramSvg' = NULL
    /\ renderSeq' = 0
    /\ issuedNow' = FALSE
    /\ waited' = FALSE
    /\ inflight' = {[j EXCEPT !.live = FALSE] : j \in inflight}

\* the instance leaves the tree: its state is dropped, its promises stay in flight
UnmountDiagram ==
    /\ diagMounted' = FALSE
    /\ chart' = ""
    /\ isMermaidLoaded' = FALSE
    /\ renderError' = NULL
    /\ diagramSvg' = NULL
    /\ renderSeq' = 0
    /\ issuedNow' = FALSE
    /\ waited' = FALSE
    /\ inflight' = {[j EXCEPT !.live = FALSE] : j \in inflight}

(***************************************************************************)
(* KaTeXRenderer (App.tsx 20-41; part_000 20-43 differs only in testing    *)
(* ref.current inside the catch block alone).  Markup and messages are     *)
(* sequences of text pieces, so that template strings concatenate and      *)
(* "contains" is a property of the content.                                *)
(***************************************************************************)
KInstances == {"k1", "k2"}

KMaths == {"P \\rightarrow Q", "\\neg Q \\rightarrow \\neg P"}

\* the prop displayMode?: boolean as the parent passes it
KDisplayProps == {"omitted", "true", "false"}

\* ({ math, displayMode = false }) (20)
displayModeOf(d) == d = "true"

KNoProps == [math |-> "", displayMode |-> "omitted"]

\* what window.katex.render may throw: an Error with a message, an Error
\* with an empty message, a value that is no Error
Thrown ==
    { [kind |-> "Error", payload |-> <<"KaTeX doesn't work in quirks mode.">>],
      [kind |-> "Error", payload |-> <<>>],
      [kind |-> "string", payload |-> <<"render failed">>] }

NoThrow == [kind |-> "none", payload |-> <<>>]

\* the effect run made no engine call
NoCall == [kind |-> "nocall", payload |-> <<>>]

\* what the engine leaves in the element when it returns normally
KatexMarkup(math, dm) ==
    << (IF dm THEN "<span class=\"katex-display\">" ELSE "<span class=\"katex\">"),
       math, "</span>" >>

\* (e instanceof Error) ? e.message : String(e) (32)
errorMsg(e) == e.payload

ErrPrefix == <<"<span style=\"color: red;\">", "Erro de renderização matemática: ">>

\* a catch block that only logs
catchBlock_LogOnly(el, e) == [innerHTML |-> el, rethrown |-> FALSE]

\* catch (e) { ... } (30-37): the element's new content, and whether the
\* block lets the exception go on
catchBlock(el, e) ==
    [innerHTML |-> ErrPrefix \o errorMsg(e) \o <<"</span>">>, rethrown |-> FALSE]

\* an engine that adds its output after what the element holds
katexRender_Appends(el, math, dm) == el \o KatexMarkup(math, dm)

\* a normal return of window.katex.render(math, el, ...): the element's
\* new content, the engine's output in place of what it held
katexRender(el, math, dm) == KatexMarkup(math, dm)

\* a call that passes one element shared by all instances
renderCall_SharedTarget(i) ==
    [expression |-> kProps[i].math, target |-> "k1",
     displayMode |-> displayModeOf(kProps[i].displayMode), throwOnError |-> FALSE]

\* a call that passes the prop as it came and lets the engine throw
renderCall_AsPassed(i) ==
    [expression |-> kProps[i].math, target |-> i,
     displayMode |-> kProps[i].displayMode # "false", throwOnError |-> TRUE]

\* the arguments of window.katex.render(math, ref.current, { displayMode:
\* displayMode, throwOnError: false }) (26-29) in instance i
renderCall(i) ==
    [expression |-> kProps[i].math, target |-> i,
     displayMode |-> displayModeOf(kProps[i].displayMode), throwOnError |-> FALSE]

\* the (math, displayMode) pair the effect of instance i sees
PairOf(i) == <<kProps[i].math, displayModeOf(kProps[i].displayMode)>>

\* no pair has been rendered yet
NoFirst == [pair |-> <<>>, content |-> <<>>]

\* a test of the ref alone
effectGuard_RefOnly(i) == i \in kMounted

\* if (window.katex && ref.current) (24): the span carries the ref whenever
\* the instance is mounted
effectGuard(i) == windowKatex /\ i \in kMounted

\* the effect (23-38) of instance i; the engine returns normally (out =
\* NoThrow) or throws out, having emptied the element or not
KaTeXRendererEffect(i, out, emptied) ==
    IF effectGuard(i)
    THEN /\ kCalls' = <<renderCall(i)>>
         /\ kThrown' = [kThrown EXCEPT ![i] = out]
         /\ IF out = NoThrow
            THEN /\ kTarget' = [kTarget EXCEPT ![renderCall(i).target] =
                       katexRender(kTarget[renderCall(i).target],
                                   renderCall(i).expression,
                                   renderCall(i).displayMode)]
                 /\ UNCHANGED kEscaped
            ELSE LET caught == catchBlock(IF emptied THEN <<>> ELSE kTarget[i], out)
                 IN /\ kTarget' = [kTarget EXCEPT ![i] = caught.innerHTML]
                    /\ kEscaped' = (kEscaped \/ caught.rethrown)
    ELSE /\ kCalls' = <<>>
         /\ kThrown' = [kThrown EXCEPT ![i] = NoCall]
         /\ UNCHANGED <<kTarget, kEscaped>>

(***************************************************************************)
(* KaTeXRenderer as the pages use it, App.tsx 20-41: every element of the  *)
(* page runs the same effect in the same flush, so the page's targets are  *)
(* filled together: by the engine's markup, or by the error message of     *)
(* the catch branch.                                                       *)
(***************************************************************************)
KaTeXPageEffect(page) == IF windowKatex THEN MathCount(page) ELSE 0

(***************************************************************************)
(* App, App.tsx 569-664.                                                   *)
(***************************************************************************)
renderPage_AnyLoaded(k, m, t, page) ==
    IF ~k /\ ~m /\ ~t THEN "loading"
    ELSE IF page \in MethodPages THEN page
    ELSE "home"

renderPage_KatexOnly(k, m, t, page) ==
    IF ~k THEN "loading"
    ELSE IF page \in MethodPages THEN page
    ELSE "home"

\* renderPage (630-656): "loading" is the 'Carregando recursos...' indicator
renderPage(k, m, t, page) ==
    IF ~k \/ ~m \/ ~t THEN "loading"
    ELSE IF page \in MethodPages THEN page
    ELSE "home"

\* React reconciles the new output of renderPage with the committed one:
\* another page component replaces the subtree, the same one keeps it
CommitPage(newShown, ml) ==
    IF newShown \in MethodPages /\ newShown # shown
    THEN /\ effectPending' = TRUE
         /\ mathTargets' = 0
         /\ MountDiagram(DiagramOf(newShown), ml)
    ELSE IF newShown \in MethodPages
    THEN /\ effectPending' = (ml # isMermaidLoaded)
         /\ isMermaidLoaded' = ml
         /\ UNCHANGED <<mathTargets, diagMounted, chart, renderError, diagramSvg,
                        inflight, renderSeq, issuedNow, waited>>
    ELSE /\ effectPending' = FALSE
         /\ mathTargets' = 0
         /\ UnmountDiagram

cleanup_ForgetsTailwind(doc, m) ==
    doc \ {<<m, "linkKatex">>, <<m, "scriptKatex">>, <<m, "scriptMermaid">>}

\* the cleanup returned by the effect (612-626): each element is removed
\* only if the document still contains it
cleanup(doc, m) ==
    LET d1 == IF <<m, "linkKatex">> \in doc THEN doc \ {<<m, "linkKatex">>} ELSE doc
        d2 == IF <<m, "scriptKatex">> \in d1 THEN d1 \ {<<m, "scriptKatex">>} ELSE d1
        d3 == IF <<m, "scriptMermaid">> \in d2 THEN d2 \ {<<m, "scriptMermaid">>} ELSE d2
        d4 == IF <<m, "scriptTailwind">> \in d3 THEN d3 \ {<<m, "scriptTailwind">>} ELSE d3
    IN  d4

\* the three onload handlers (585-587, 593-599, 605-607); live = the App
\* instance that registered the handler is still mounted
\* a handler that declares every resource ready
scriptKatexOnload_SetsAll(live) ==
    /\ katexLoaded' = (katexLoaded \/ live)
    /\ mermaidLoaded' = (mermaidLoaded \/ live)
    /\ tailwindLoaded' = (tailwindLoaded \/ live)
    /\ UNCHANGED initCalls

\* a KaTeX handler that sets no flag
scriptKatexOnload_SetsNothing(live) ==
    /\ live \in BOOLEAN
    /\ UNCHANGED <<katexLoaded, mermaidLoaded, tailwindLoaded, initCalls>>

scriptKatexOnload(live) ==
    /\ katexLoaded' = (katexLoaded \/ live)
    /\ UNCHANGED <<mermaidLoaded, tailwindLoaded, initCalls>>

\* a handler that sets the flag and leaves the engine unconfigured
scriptMermaidOnload_NoInitialize(live) ==
    /\ mermaidLoaded' = (mermaidLoaded \/ live)
    /\ UNCHANGED <<katexLoaded, tailwindLoaded, initCalls>>

scriptMermaidOnload(live) ==
    /\ mermaidLoaded' = (mermaidLoaded \/ live)
    /\ initCalls' = IF windowMermaid' THEN initCalls + 1 ELSE initCalls
    /\ UNCHANGED <<katexLoaded, tailwindLoaded>>

\* a handler that sets no flag
scriptTailwindOnload_SetsNothing(live) ==
    /\ live \in BOOLEAN
    /\ UNCHANGED <<katexLoaded, mermaidLoaded, tailwindLoaded, initCalls>>

scriptTailwindOnload_SetsMermaid(live) ==
    /\ tailwindLoaded' = (tailwindLoaded \/ live)
    /\ mermaidLoaded' = (mermaidLoaded \/ live)
    /\ UNCHANGED <<katexLoaded, initCalls>>

scriptTailwindOnload(live) ==
    /\ tailwindLoaded' = (tailwindLoaded \/ live)
    /\ UNCHANGED <<katexLoaded, mermaidLoaded, initCalls>>

onload(s, live) ==
    CASE s = "scriptKatex" -> scriptKatexOnload(live)
      [] s = "scriptMermaid" -> scriptMermaidOnload(live)
      [] s = "scriptTailwind" -> scriptTailwindOnload(live)

\* the browser runs a fetched script before it fires load; defines = the
\* script text defined its global (a broken file still fires load)
RunScript(s, defines) ==
    /\ windowKatex' = (windowKatex \/ (s = "scriptKatex" /\ defines))
    /\ windowMermaid' = (windowMermaid \/ (s = "scriptMermaid" /\ defines))

\* first commit of App and its effect (570-609)
AppMount ==
    /\ ~appMounted
    /\ mounts < MaxMounts
    /\ appMounted' = TRUE
    /\ mounts' = mounts + 1
    /\ currentPage' = "home"
    /\ katexLoaded' = FALSE
    /\ mermaidLoaded' = FALSE
    /\ tailwindLoaded' = FALSE
    /\ isOpen' = FALSE
    /\ shown' = renderPage(FALSE, FALSE, FALSE, "home")
    /\ attached' = attached \cup {<<mounts + 1, e>> : e \in Elements}
    /\ loadState' = [s \in Scripts |-> "pending"]
    /\ CommitPage(shown', FALSE)
    /\ UNCHANGED <<orphans, windowKatex, windowMermaid, initCalls, legacyVars>>
    /\ UNCHANGED katexVars
    /\ UNCHANGED cleanupThrew

\* App leaves the tree: the cleanup runs, its scripts that have not fired
\* load yet keep loading detached
AppUnmount ==
    /\ appMounted
    /\ ~effectPending
    /\ appMounted' = FALSE
    /\ shown' = "none"
    /\ attached' = cleanup(attached, mounts)
    /\ orphans' = orphans \cup {<<mounts, s>> : s \in {x \in Scripts : loadState[x] = "pending"}}
    /\ loadState' = [s \in Scripts |-> "idle"]
    /\ CommitPage("none", FALSE)
    /\ UNCHANGED <<mounts, currentPage, katexLoaded, mermaidLoaded, tailwindLoaded,
                   isOpen, windowKatex, windowMermaid, initCalls, legacyVars>>
    /\ UNCHANGED katexVars
    /\ UNCHANGED cleanupThrew

\* load fires on a script of the mounted instance
ScriptLoad(s, defines) ==
    /\ appMounted
    /\ ~effectPending
    /\ loadState[s] = "pending"
    /\ loadState' = [loadState EXCEPT ![s] = "loaded"]
    /\ RunScript(s, defines)
    /\ onload(s, TRUE)
    /\ shown' = renderPage(katexLoaded', mermaidLoaded', tailwindLoaded', currentPage)
    /\ CommitPage(shown', mermaidLoaded')
    /\ UNCHANGED <<appMounted, mounts, currentPage, isOpen, attached, orphans, legacyVars>>
    /\ UNCHANGED katexVars
    /\ UNCHANGED cleanupThrew

\* the fetch of a script of the mounted instance fails: error fires, and
\* no handler is registered for it
ScriptError(s) ==
    /\ appMounted
    /\ loadState[s] = "pending"
    /\ loadState' = [loadState EXCEPT ![s] = "failed"]
    /\ UNCHANGED <<appVars, attached, orphans, windowKatex, windowMermaid, initCalls,
                   effectPending, mathTargets, diagVars, legacyVars>>
    /\ UNCHANGED katexVars
    /\ UNCHANGED cleanupThrew

\* load fires on a script whose App instance has been torn down
OrphanLoad(o, defines) ==
    /\ o \in orphans
    /\ orphans' = orphans \ {o}
    /\ RunScript(o[2], defines)
    /\ onload(o[2], FALSE)
    /\ UNCHANGED <<appMounted, mounts, currentPage, isOpen, shown, attached, loadState,
                   effectPending, mathTargets, diagVars, legacyVars>>
    /\ UNCHANGED katexVars
    /\ UNCHANGED cleanupThrew

\* a Navbar item click that also puts the gate back to Loading
NavbarClick_ClearsFlag(p) ==
    /\ appMounted
    /\ ~effectPending
    /\ currentPage' = p
    /\ isOpen' = FALSE
    /\ tailwindLoaded' = FALSE
    /\ shown' = renderPage(katexLoaded, mermaidLoaded, FALSE, p)
    /\ CommitPage(shown', mermaidLoaded)
    /\ UNCHANGED <<appMounted, mounts, katexLoaded, mermaidLoaded, envVars,
                   legacyVars, katexVars, cleanupThrew>>

\* a Navbar item is clicked (138)
NavbarClick(p) ==
    /\ appMounted
    /\ ~effectPending
    /\ currentPage' = p
    /\ isOpen' = FALSE
    /\ shown' = renderPage(katexLoaded, mermaidLoaded, tailwindLoaded, p)
    /\ CommitPage(shown', mermaidLoaded)
    /\ UNCHANGED <<appMounted, mounts, katexLoaded, mermaidLoaded, tailwindLoaded,
                   envVars, legacyVars>>
    /\ UNCHANGED katexVars
    /\ UNCHANGED cleanupThrew

\* the Navbar toggle button is clicked (126)
NavbarToggle ==
    /\ appMounted
    /\ ~effectPending
    /\ isOpen' = ~isOpen
    /\ UNCHANGED <<appMounted, mounts, currentPage, katexLoaded, mermaidLoaded,
                   tailwindLoaded, shown, envVars, effectPending, mathTargets,
                   diagVars, legacyVars>>
    /\ UNCHANGED katexVars
    /\ UNCHANGED cleanupThrew

\* a method button of HomePage is clicked (178)
HomePageClick(p) ==
    /\ appMounted
    /\ ~effectPending
    /\ shown = "home"
    /\ currentPage' = p
    /\ shown' = renderPage(katexLoaded, mermaidLoaded, tailwindLoaded, p)
    /\ CommitPage(shown', mermaidLoaded)
    /\ UNCHANGED <<appMounted, mounts, katexLoaded, mermaidLoaded, tailwindLoaded,
                   isOpen, envVars, legacyVars>>
    /\ UNCHANGED katexVars
    /\ UNCHANGED cleanupThrew

\* React flushes the passive effects of the page just committed
PageEffects ==
    /\ appMounted
    /\ effectPending
    /\ effectPending' = FALSE
    /\ mathTargets' = KaTeXPageEffect(shown)
    /\ MermaidDiagramEffect
    /\ UNCHANGED <<appVars, envVars, legacyVars>>
    /\ UNCHANGED katexVars
    /\ UNCHANGED cleanupThrew

Init ==
    /\ appMounted = FALSE
    /\ mounts = 0
    /\ currentPage = "home"
    /\ katexLoaded = FALSE
    /\ mermaidLoaded = FALSE
    /\ tailwindLoaded = FALSE
    /\ isOpen = FALSE
    /\ shown = "none"
    /\ attached = {}
    /\ loadState = [s \in Scripts |-> "idle"]
    /\ orphans = {}
    /\ windowKatex = FALSE
    /\ windowMermaid = FALSE
    /\ initCalls = 0
    /\ effectPending = FALSE
    /\ mathTargets = 0
    /\ diagMounted = FALSE
    /\ chart = ""
    /\ isMermaidLoaded = FALSE
    /\ renderError = NULL
    /\ diagramSvg = NULL
    /\ inflight = {}
    /\ renderSeq = 0
    /\ issuedNow = FALSE
    /\ waited = FALSE
    /\ svg = ""
    /\ mermaidReady = FALSE
    /\ pendingEffects = {}
    /\ kMounted = {}
    /\ kProps = [i \in KInstances |-> KNoProps]
    /\ kTarget = [i \in KInstances |-> <<>>]
    /\ kEffect = {}
    /\ kThrown = [i \in KInstances |-> NoCall]
    /\ kEscaped = FALSE
    /\ kCalls = <<>>
    /\ kRuns = [i \in KInstances |-> 0]
    /\ kFirst = [i \in KInstances |-> NoFirst]
    /\ cleanupThrew = FALSE

Next ==
    \/ AppMount
    \/ AppUnmount
    \/ \E s \in Scripts, defines \in BOOLEAN : ScriptLoad(s, defines)
    \/ \E s \in Scripts : ScriptError(s)
    \/ \E o \in orphans, defines \in BOOLEAN : OrphanLoad(o, defines)
    \/ \E p \in navItems : NavbarClick(p)
    \/ NavbarToggle
    \/ \E p \in MethodPages : HomePageClick(p)
    \/ PageEffects

Spec == Init /\ [][Next]_vars

\* an id that no case of the switch in renderPage names
OtherIds == {"other"}

\* setCurrentPage called with any string: the setter is typed
\* (page: string) => void (99-102) and passed down at 660
SetCurrentPage(p) ==
    /\ appMounted
    /\ ~effectPending
    /\ currentPage' = p
    /\ shown' = renderPage(katexLoaded, mermaidLoaded, tailwindLoaded, p)
    /\ CommitPage(shown', mermaidLoaded)
    /\ UNCHANGED <<appMounted, mounts, katexLoaded, mermaidLoaded, tailwindLoaded,
                   isOpen, envVars, legacyVars, katexVars, cleanupThrew>>

NextLive ==
    \/ Next
    \/ \E p \in OtherIds : SetCurrentPage(p)

\* the browser dispatches the load event of every script whose fetch
\* completes: a load that stays possible is eventually fired
SpecLive ==
    /\ Init
    /\ [][NextLive]_vars
    /\ \A s \in Scripts : WF_vars(\E defines \in BOOLEAN : ScriptLoad(s, defines))

(***************************************************************************)
(* MermaidDiagram on its own, under a parent that may pass any props: the  *)
(* component's input contract is (chart, isMermaidLoaded), and App is only *)
(* one caller of it.                                                       *)
(***************************************************************************)
Charts == {""} \cup {DiagramOf(p) : p \in MethodPages}

\* first commit of <MermaidDiagram chart={c} isMermaidLoaded={l} />
DiagramMount(c, l) ==
    /\ ~diagMounted
    /\ MountDiagram(c, l)
    /\ effectPending' = TRUE
    /\ UNCHANGED <<appVars, envVars, mathTargets, legacyVars>>
    /\ UNCHANGED katexVars
    /\ UNCHANGED cleanupThrew

\* the parent renders again with other props: the deps [chart, isMermaidLoaded]
\* (80) differ, so the effect is scheduled
DiagramProps(c, l) ==
    /\ diagMounted
    /\ ~effectPending
    /\ <<c, l>> # <<chart, isMermaidLoaded>>
    /\ chart' = c
    /\ isMermaidLoaded' = l
    /\ effectPending' = TRUE
    /\ UNCHANGED <<diagMounted, renderError, diagramSvg, inflight, renderSeq,
                   issuedNow, waited>>
    /\ UNCHANGED <<appVars, envVars, mathTargets, legacyVars>>
    /\ UNCHANGED katexVars
    /\ UNCHANGED cleanupThrew

\* React flushes the effect of the last commit
DiagramEffect ==
    /\ diagMounted
    /\ effectPending
    /\ effectPending' = FALSE
    /\ MermaidDiagramEffect
    /\ UNCHANGED <<appVars, envVars, mathTargets, legacyVars>>
    /\ UNCHANGED katexVars
    /\ UNCHANGED cleanupThrew

\* the parent removes the element
DiagramUnmount ==
    /\ diagMounted
    /\ ~effectPending
    /\ UnmountDiagram
    /\ UNCHANGED <<appVars, envVars, effectPending, mathTargets, legacyVars>>
    /\ UNCHANGED katexVars
    /\ UNCHANGED cleanupThrew

\* the Mermaid script runs and defines window.mermaid
MermaidDefined ==
    /\ ~windowMermaid
    /\ windowMermaid' = TRUE
    /\ UNCHANGED <<appVars, attached, loadState, orphans, windowKatex, initCalls,
                   effectPending, mathTargets, diagVars, legacyVars>>
    /\ UNCHANGED katexVars
    /\ UNCHANGED cleanupThrew

\* No render call is ever issued by this component (see RenderNeverIssued),
\* so ThenCallback and CatchCallback are never enabled and are not disjuncts.
NextDiagram ==
    \/ \E c \in Charts, l \in BOOLEAN : DiagramMount(c, l)
    \/ \E c \in Charts, l \in BOOLEAN : DiagramProps(c, l)
    \/ DiagramEffect
    \/ DiagramUnmount
    \/ MermaidDefined

SpecDiagram == Init /\ [][NextDiagram]_vars

(***************************************************************************)
(* MermaidDiagram of part_000 (51-86): no isMermaidLoaded prop; it looks   *)
(* at window.mermaid in an effect of its own and keeps the outcome, SVG or *)
(* error markup, in the one state svg.  Driven by a parent that may pass   *)
(* any chart.                                                              *)
(***************************************************************************)
LegacyCharts == {"", DiagramOf("direct"), DiagramOf("absurd")}

LegacyErrMarkup == "<p style=\"color: red;\">Erro ao renderizar diagrama.</p>"

\* the identifier of every render call (66)
LegacyRenderId == "mermaid-svg"

\* the component renders the markup when svg is truthy, else the placeholder (77-84)
LegacyDisplay == IF Truthy(svg) THEN "markup" ELSE "waiting"

\* a first effect that reports the engine ready without testing window.mermaid
LegacyReadyEffect_AlwaysReady == TRUE

\* first effect (55-61), deps [mermaidReady]: the new value of mermaidReady
LegacyReadyEffect == mermaidReady \/ windowMermaid

\* second effect (63-75), deps [chart, mermaidReady]: it reads the
\* mermaidReady of the committed render
LegacyRenderEffect ==
    IF chart # "" /\ mermaidReady
    THEN /\ renderSeq < MaxRenders
         /\ inflight' = inflight \cup
                {[live |-> TRUE, n |-> renderSeq + 1, id |-> LegacyRenderId,
                  chart |-> chart]}
         /\ renderSeq' = renderSeq + 1
    ELSE UNCHANGED <<inflight, renderSeq>>

\* first commit of <MermaidDiagram chart={c} />
LegacyDiagramMount(c) ==
    /\ ~diagMounted
    /\ diagMounted' = TRUE
    /\ chart' = c
    /\ svg' = ""
    /\ mermaidReady' = FALSE
    /\ pendingEffects' = {"ready", "render"}
    /\ renderSeq' = 0
    /\ inflight' = {[j EXCEPT !.live = FALSE] : j \in inflight}
    /\ UNCHANGED <<appVars, envVars, effectPending, mathTargets, isMermaidLoaded,
                   renderError, diagramSvg, issuedNow, waited>>
    /\ UNCHANGED katexVars
    /\ UNCHANGED cleanupThrew

\* the parent renders again with another chart: only the second effect's deps differ
LegacyDiagramProps(c) ==
    /\ diagMounted
    /\ pendingEffects = {}
    /\ c # chart
    /\ chart' = c
    /\ pendingEffects' = {"render"}
    /\ UNCHANGED <<appVars, envVars, effectPending, mathTargets, diagMounted,
                   isMermaidLoaded, renderError, diagramSvg, inflight, renderSeq,
                   issuedNow, waited, svg, mermaidReady>>
    /\ UNCHANGED katexVars
    /\ UNCHANGED cleanupThrew

\* React flushes the scheduled effects in order; setMermaidReady(true)
\* commits a new render, whose deps differ for both effects
LegacyDiagramEffects ==
    /\ diagMounted
    /\ pendingEffects # {}
    /\ mermaidReady' = IF "ready" \in pendingEffects THEN LegacyReadyEffect
                       ELSE mermaidReady
    /\ IF "render" \in pendingEffects THEN LegacyRenderEffect
       ELSE UNCHANGED <<inflight, renderSeq>>
    /\ pendingEffects' = IF mermaidReady' # mermaidReady THEN {"ready", "render"}
                         ELSE {}
    /\ UNCHANGED <<appVars, envVars, effectPending, mathTargets, diagMounted, chart,
                   isMermaidLoaded, renderError, diagramSvg, issuedNow, waited, svg>>
    /\ UNCHANGED katexVars
    /\ UNCHANGED cleanupThrew

\* LegacyThenCallback with the result written to whichever instance is
\* mounted, as a store shared between instances would do
LegacyThenCallback_SharedStore(j) ==
    /\ j \in inflight
    /\ pendingEffects = {}
    /\ inflight' = inflight \ {j}
    /\ svg' = IF diagMounted THEN SvgOf(j.chart) ELSE svg
    /\ UNCHANGED <<appVars, envVars, effectPending, mathTargets, diagMounted, chart,
                   isMermaidLoaded, renderError, diagramSvg, renderSeq, issuedNow,
                   waited, mermaidReady, pendingEffects>>
    /\ UNCHANGED katexVars
    /\ UNCHANGED cleanupThrew

\* .then(({ svg }) => setSvg(svg)) (67-69)
LegacyThenCallback(j) ==
    /\ j \in inflight
    /\ pendingEffects = {}
    /\ inflight' = inflight \ {j}
    /\ svg' = IF j.live THEN SvgOf(j.chart) ELSE svg
    /\ UNCHANGED <<appVars, envVars, effectPending, mathTargets, diagMounted, chart,
                   isMermaidLoaded, renderError, diagramSvg, renderSeq, issuedNow,
                   waited, mermaidReady, pendingEffects>>
    /\ UNCHANGED katexVars
    /\ UNCHANGED cleanupThrew

\* .catch(error => setSvg('<p ...>Erro ao renderizar diagrama.</p>')) (70-73)
LegacyCatchCallback(j) ==
    /\ j \in inflight
    /\ pendingEffects = {}
    /\ inflight' = inflight \ {j}
    /\ svg' = IF j.live THEN LegacyErrMarkup ELSE svg
    /\ UNCHANGED <<appVars, envVars, effectPending, mathTargets, diagMounted, chart,
                   isMermaidLoaded, renderError, diagramSvg, renderSeq, issuedNow,
                   waited, mermaidReady, pendingEffects>>
    /\ UNCHANGED katexVars
    /\ UNCHANGED cleanupThrew

\* the parent removes the element
LegacyDiagramUnmount ==
    /\ diagMounted
    /\ pendingEffects = {}
    /\ diagMounted' = FALSE
    /\ chart' = ""
    /\ svg' = ""
    /\ mermaidReady' = FALSE
    /\ renderSeq' = 0
    /\ inflight' = {[j EXCEPT !.live = FALSE] : j \in inflight}
    /\ UNCHANGED <<appVars, envVars, effectPending, mathTargets, isMermaidLoaded,
                   renderError, diagramSvg, issuedNow, waited, pendingEffects>>
    /\ UNCHANGED katexVars
    /\ UNCHANGED cleanupThrew

NextLegacyDiagram ==
    \/ \E c \in LegacyCharts : LegacyDiagramMount(c)
    \/ \E c \in LegacyCharts : LegacyDiagramProps(c)
    \/ LegacyDiagramEffects
    \/ \E j \in inflight : LegacyThenCallback(j)
    \/ \E j \in inflight : LegacyCatchCallback(j)
    \/ LegacyDiagramUnmount
    \/ MermaidDefined

SpecLegacyDiagram == Init /\ [][NextLegacyDiagram]_vars

(***************************************************************************)
(* App of part_000 (551-627): two scripts and the stylesheet, page content *)
(* gated on katexLoaded alone, the cleanup removing its elements without   *)
(* looking.  The pages mount the MermaidDiagram of part_000.               *)
(***************************************************************************)
LegacyScripts == {"scriptKatex", "scriptMermaid"}

LegacyElements == {"linkKatex"} \cup LegacyScripts

\* the pages visited in a run
LegacyPages == {"home", "direct", "absurd"}

\* a gate that waits for nothing
legacyRenderPage_NoGate(k, page) ==
    IF page \in MethodPages THEN page ELSE "home"

\* renderPage (592-618)
legacyRenderPage(k, page) ==
    IF ~k THEN "loading"
    ELSE IF page \in MethodPages THEN page
    ELSE "home"

\* React reconciles the new output of renderPage with the committed one; a
\* page that stays re-renders its MermaidDiagram with the same chart, which
\* schedules no effect
LegacyCommitPage(newShown) ==
    IF newShown \in MethodPages /\ newShown # shown
    THEN /\ diagMounted' = TRUE
         /\ chart' = DiagramOf(newShown)
         /\ svg' = ""
         /\ mermaidReady' = FALSE
         /\ pendingEffects' = {"ready", "render"}
         /\ renderSeq' = 0
         /\ inflight' = {[j EXCEPT !.live = FALSE] : j \in inflight}
    ELSE IF newShown \in MethodPages
    THEN UNCHANGED <<diagMounted, chart, svg, mermaidReady, pendingEffects,
                     renderSeq, inflight>>
    ELSE /\ diagMounted' = FALSE
         /\ chart' = ""
         /\ svg' = ""
         /\ mermaidReady' = FALSE
         /\ pendingEffects' = {}
         /\ renderSeq' = 0
         /\ inflight' = {[j EXCEPT !.live = FALSE] : j \in inflight}

\* element.parentNode.removeChild(element): NotFoundError when the element
\* is not a child; r = the document so far and whether an error was raised
removeChild(r, e) ==
    IF r.threw THEN r
    ELSE IF e \in r.doc THEN [doc |-> r.doc \ {e}, threw |-> FALSE]
    ELSE [doc |-> r.doc, threw |-> TRUE]

\* the cleanup returned by the effect (585-589): three removals in a row,
\* the first error ending it
legacyCleanup(doc, m) ==
    removeChild(removeChild(removeChild([doc |-> doc, threw |-> FALSE],
        <<m, "linkKatex">>), <<m, "scriptKatex">>), <<m, "scriptMermaid">>)

\* first commit of App and its effect (552-582)
LegacyAppMount ==
    /\ ~appMounted
    /\ mounts < MaxMounts
    /\ appMounted' = TRUE
    /\ mounts' = mounts + 1
    /\ currentPage' = "home"
    /\ katexLoaded' = FALSE
    /\ mermaidLoaded' = FALSE
    /\ shown' = legacyRenderPage(FALSE, "home")
    /\ attached' = attached \cup {<<mounts + 1, e>> : e \in LegacyElements}
    /\ loadState' = [s \in Scripts |->
                        IF s \in LegacyScripts THEN "pending" ELSE "idle"]
    /\ LegacyCommitPage(shown')
    /\ UNCHANGED <<tailwindLoaded, isOpen, orphans, windowKatex, windowMermaid,
                   initCalls, effectPending, mathTargets, isMermaidLoaded,
                   renderError, diagramSvg, issuedNow, waited, katexVars,
                   cleanupThrew>>

\* App leaves the tree: the cleanup runs; scripts that have not fired load
\* yet keep loading
LegacyAppUnmount ==
    /\ appMounted
    /\ pendingEffects = {}
    /\ appMounted' = FALSE
    /\ shown' = "none"
    /\ attached' = legacyCleanup(attached, mounts).doc
    /\ cleanupThrew' = (cleanupThrew \/ legacyCleanup(attached, mounts).threw)
    /\ orphans' = orphans \cup
            {<<mounts, s>> : s \in {x \in LegacyScripts : loadState[x] = "pending"}}
    /\ loadState' = [s \in Scripts |-> "idle"]
    /\ LegacyCommitPage("none")
    /\ UNCHANGED <<mounts, currentPage, katexLoaded, mermaidLoaded, tailwindLoaded,
                   isOpen, windowKatex, windowMermaid, initCalls, effectPending,
                   mathTargets, isMermaidLoaded, renderError, diagramSvg,
                   issuedNow, waited, katexVars>>

\* load fires on a script of the mounted instance: the handlers at 566-568
\* and 574-580 do what those of App.tsx do for these two scripts
LegacyScriptLoad(s, defines) ==
    /\ appMounted
    /\ pendingEffects = {}
    /\ loadState[s] = "pending"
    /\ loadState' = [loadState EXCEPT ![s] = "loaded"]
    /\ RunScript(s, defines)
    /\ onload(s, TRUE)
    /\ shown' = legacyRenderPage(katexLoaded', currentPage)
    /\ LegacyCommitPage(shown')
    /\ UNCHANGED <<appMounted, mounts, currentPage, isOpen, attached, orphans,
                   effectPending, mathTargets, isMermaidLoaded, renderError,
                   diagramSvg, issuedNow, waited, katexVars, cleanupThrew>>

\* a Navbar item is clicked (126)
LegacyNavbarClick(p) ==
    /\ appMounted
    /\ pendingEffects = {}
    /\ currentPage' = p
    /\ isOpen' = FALSE
    /\ shown' = legacyRenderPage(katexLoaded, p)
    /\ LegacyCommitPage(shown')
    /\ UNCHANGED <<appMounted, mounts, katexLoaded, mermaidLoaded, tailwindLoaded,
                   envVars, effectPending, mathTargets, isMermaidLoaded,
                   renderError, diagramSvg, issuedNow, waited, katexVars,
                   cleanupThrew>>

\* a method button of HomePage is clicked (166)
LegacyHomePageClick(p) ==
    /\ appMounted
    /\ pendingEffects = {}
    /\ shown = "home"
    /\ currentPage' = p
    /\ shown' = legacyRenderPage(katexLoaded, p)
    /\ LegacyCommitPage(shown')
    /\ UNCHANGED <<appMounted, mounts, katexLoaded, mermaidLoaded, tailwindLoaded,
                   isOpen, envVars, effectPending, mathTargets, isMermaidLoaded,
                   renderError, diagramSvg, issuedNow, waited, katexVars,
                   cleanupThrew>>

\* something other than App takes an element App injected out of the
\* document; a script so removed still loads
ExternalDetach(e) ==
    /\ e \in attached
    /\ attached' = attached \ {e}
    /\ UNCHANGED <<appVars, loadState, orphans, windowKatex, windowMermaid,
                   initCalls, effectPending, mathTargets, diagVars, legacyVars,
                   katexVars, cleanupThrew>>

NextLegacyApp ==
    \/ LegacyAppMount
    \/ LegacyAppUnmount
    \/ \E s \in LegacyScripts, defines \in BOOLEAN : LegacyScriptLoad(s, defines)
    \/ \E s \in LegacyScripts : ScriptError(s)
    \/ \E o \in orphans, defines \in BOOLEAN : OrphanLoad(o, defines)
    \/ \E p \in LegacyPages : LegacyNavbarClick(p)
    \/ \E p \in LegacyPages \ {"home"} : LegacyHomePageClick(p)
    \/ LegacyDiagramEffects
    \/ \E j \in inflight : LegacyThenCallback(j)
    \/ \E j \in inflight : LegacyCatchCallback(j)
    \/ \E e \in attached : ExternalDetach(e)

SpecLegacyApp == Init /\ [][NextLegacyApp]_vars

(***************************************************************************)
(* KaTeXRenderer under a parent that may mount two instances and pass any  *)
(* props.                                                                  *)
(***************************************************************************)
\* first commit of <KaTeXRenderer math={m} displayMode={d} />
KatexMount(i, m, d) ==
    /\ i \notin kMounted
    /\ kMounted' = kMounted \cup {i}
    /\ kProps' = [kProps EXCEPT ![i] = [math |-> m, displayMode |-> d]]
    /\ kTarget' = [kTarget EXCEPT ![i] = <<>>]
    /\ kEffect' = kEffect \cup {i}
    /\ kCalls' = <<>>
    /\ UNCHANGED <<kThrown, kEscaped, kRuns, kFirst>>
    /\ UNCHANGED <<appVars, envVars, effectPending, mathTargets, diagVars, legacyVars>>
    /\ UNCHANGED cleanupThrew

\* the parent renders again with other props; the effect is scheduled when
\* one of its deps [math, displayMode] differs
KatexProps(i, m, d) ==
    /\ i \in kMounted
    /\ i \notin kEffect
    /\ kRuns[i] < MaxKRuns
    /\ [math |-> m, displayMode |-> d] # kProps[i]
    /\ kProps' = [kProps EXCEPT ![i] = [math |-> m, displayMode |-> d]]
    /\ kEffect' = IF m # kProps[i].math
                     \/ displayModeOf(d) # displayModeOf(kProps[i].displayMode)
                  THEN kEffect \cup {i}
                  ELSE kEffect
    /\ kCalls' = <<>>
    /\ UNCHANGED <<kMounted, kTarget, kThrown, kEscaped, kRuns, kFirst>>
    /\ UNCHANGED <<appVars, envVars, effectPending, mathTargets, diagVars, legacyVars>>
    /\ UNCHANGED cleanupThrew

\* React flushes the scheduled effect of instance i
KatexEffect(i, out, emptied) ==
    /\ i \in kEffect
    /\ kEffect' = kEffect \ {i}
    /\ KaTeXRendererEffect(i, out, emptied)
    /\ kRuns' = [kRuns EXCEPT ![i] = kRuns[i] + 1]
    /\ kFirst' = IF kThrown'[i] = NoThrow /\ kFirst[i] = NoFirst
                 THEN [kFirst EXCEPT ![i] =
                          [pair |-> PairOf(i), content |-> kTarget'[i]]]
                 ELSE kFirst
    /\ UNCHANGED <<kMounted, kProps>>
    /\ UNCHANGED <<appVars, envVars, effectPending, mathTargets, diagVars, legacyVars>>
    /\ UNCHANGED cleanupThrew

\* the parent removes the element
KatexUnmount(i) ==
    /\ i \in kMounted
    /\ i \notin kEffect
    /\ kMounted' = kMounted \ {i}
    /\ kProps' = [kProps EXCEPT ![i] = KNoProps]
    /\ kTarget' = [kTarget EXCEPT ![i] = <<>>]
    /\ kThrown' = [kThrown EXCEPT ![i] = NoCall]
    /\ kRuns' = [kRuns EXCEPT ![i] = 0]
    /\ kFirst' = [kFirst EXCEPT ![i] = NoFirst]
    /\ kCalls' = <<>>
    /\ UNCHANGED <<kEffect, kEscaped>>
    /\ UNCHANGED <<appVars, envVars, effectPending, mathTargets, diagVars, legacyVars>>
    /\ UNCHANGED cleanupThrew

\* the KaTeX script runs and defines window.katex
KatexDefined ==
    /\ ~windowKatex
    /\ windowKatex' = TRUE
    /\ UNCHANGED <<appVars, attached, loadState, orphans, windowMermaid, initCalls,
                   effectPending, mathTargets, diagVars, legacyVars, katexVars>>
    /\ UNCHANGED cleanupThrew

NextKatex ==
    \/ \E i \in KInstances, m \in KMaths, d \in KDisplayProps : KatexMount(i, m, d)
    \/ \E i \in KInstances, m \in KMaths, d \in KDisplayProps : KatexProps(i, m, d)
    \/ \E i \in KInstances : KatexEffect(i, NoThrow, FALSE)
    \/ \E i \in KInstances, out \in Thrown, emptied \in BOOLEAN :
            KatexEffect(i, out, emptied)
    \/ \E i \in KInstances : KatexUnmount(i)
    \/ KatexDefined

SpecKatex == Init /\ [][NextKatex]_vars

(***************************************************************************)
(* Properties.                                                             *)
(***************************************************************************)
GateReady == katexLoaded /\ mermaidLoaded /\ tailwindLoaded

\* the readiness flag a script's onload handler sets
FlagOf(s) ==
    CASE s = "scriptKatex" -> katexLoaded
      [] s = "scriptMermaid" -> mermaidLoaded
      [] s = "scriptTailwind" -> tailwindLoaded

\* a render call is superseded once the instance has issued a later one or
\* its chart is no longer the one the call was issued for
Superseded(j) == j.n # renderSeq \/ j.chart # chart

\* MermaidDiagram of App.tsx never reaches window.mermaid.render: the call
\* needs mermaidRef.current, which needs diagramSvg, which only a resolved
\* call sets.
RenderNeverIssued == inflight = {} /\ renderSeq = 0 /\ ~issuedNow /\ diagramSvg = NULL

\* C1: when the promise of a superseded render call of the mounted
\* MermaidDiagram settles, resolved or rejected, the component's stored
\* outcome (diagramSvg and renderError; svg in part_000) does not change.
C1_SupersededResultIgnored ==
    [][\A j \in inflight \ inflight' :
          (diagMounted /\ diagMounted' /\ j.live /\ Superseded(j))
              => /\ svg' = svg
                 /\ diagramSvg' = diagramSvg
                 /\ renderError' = renderError]_vars

\* C2: in the first App instance, a MermaidDiagram mounted with a non-empty
\* chart and isMermaidLoaded = true, with the engine present, whose effect
\* has run and which has no render call left in flight, is in the Succeeded
\* state: diagramSvg holds the engine's markup for the chart and is what is
\* displayed.
C2_ReadyDiagramSucceeds ==
    (appMounted /\ mounts = 1 /\ diagMounted /\ chart # "" /\ isMermaidLoaded
        /\ windowMermaid /\ ~effectPending /\ inflight = {})
        => (Display = "svg" /\ diagramSvg = SvgOf(chart))

\* C3: whenever isMermaidLoaded is false and the effect for the current
\* props has run, that effect issued no render call and the component shows
\* the waiting placeholder, with no SVG and no error message stored.
C3_NotLoadedShowsWaiting ==
    (diagMounted /\ ~isMermaidLoaded /\ ~effectPending)
        => /\ ~issuedNow
           /\ Display = "waiting"
           /\ diagramSvg = NULL
           /\ renderError = NULL

C3_Witness ==
    /\ diagMounted
    /\ ~isMermaidLoaded
    /\ ~effectPending
    /\ waited
    /\ windowMermaid
    /\ chart = DiagramOf("direct")

\* C4: a MermaidDiagram with a non-empty chart waits and issues no render
\* call while isMermaidLoaded is false, and the effect run that finds
\* isMermaidLoaded true after such a wait (engine present) issues a render
\* call for the current chart.
C4_RenderIssuedOnceReady ==
    /\ []((diagMounted /\ chart # "" /\ ~isMermaidLoaded /\ ~effectPending)
            => (Display = "waiting" /\ ~issuedNow))
    /\ [][(diagMounted /\ effectPending /\ ~effectPending' /\ waited /\ chart # ""
             /\ isMermaidLoaded /\ windowMermaid)
            => (issuedNow' /\ \E j \in inflight' \ inflight : j.chart = chart)]_vars

\* C5: while App is mounted, the page for currentPage is shown exactly when
\* the three flags are true; otherwise only the loading indicator is shown
\* and no adapter is mounted, whatever currentPage is.
C5_GateIffAllLoaded ==
    appMounted =>
        IF katexLoaded /\ mermaidLoaded /\ tailwindLoaded
        THEN shown = (IF currentPage \in MethodPages THEN currentPage ELSE "home")
        ELSE shown = "loading" /\ ~diagMounted /\ mathTargets = 0

C5_Witness ==
    /\ appMounted
    /\ shown = "loading"
    /\ currentPage = "direct"
    /\ katexLoaded
    /\ mermaidLoaded
    /\ ~tailwindLoaded

\* C6: no step turns a readiness flag from true to false, and no step takes
\* the gate from Ready back to Loading.
C6_ReadinessNeverReverts ==
    [][/\ katexLoaded => katexLoaded'
       /\ mermaidLoaded => mermaidLoaded'
       /\ tailwindLoaded => tailwindLoaded'
       /\ GateReady => GateReady']_vars

\* C7: while the gate is Loading no page with adapters is mounted, and
\* every step in which an adapter calls its engine starts in a state where
\* that engine's onload handler has set its flag.
C7_EngineCallsOnlyAfterLoad ==
    /\ [](appMounted /\ ~GateReady
            => shown \notin MethodPages /\ ~diagMounted /\ ~effectPending)
    /\ [][/\ mathTargets' > mathTargets => (appMounted /\ katexLoaded)
          /\ inflight' \ inflight # {} => (appMounted /\ mermaidLoaded)]_vars

C7_Witness == appMounted /\ shown = "absurd" /\ mathTargets = 8

\* C8: while a script of the mounted App has not fired load, its flag is
\* false and the loading indicator is shown, whatever else has loaded; once
\* it has failed this holds in every later state of that instance, and no
\* step of the instance injects an element again.
C8_FailedLoadStaysLoading ==
    /\ [](appMounted =>
            \A s \in Scripts : loadState[s] # "loaded"
                => ~FlagOf(s) /\ ~GateReady /\ shown = "loading")
    /\ [][(appMounted /\ appMounted' /\ \E s \in Scripts : loadState[s] = "failed")
            => /\ attached' \subseteq attached
               /\ \A s \in Scripts :
                    loadState[s] = "failed" => loadState'[s] = "failed"]_vars

C8_Witness ==
    /\ appMounted
    /\ loadState["scriptMermaid"] = "failed"
    /\ katexLoaded
    /\ tailwindLoaded
    /\ currentPage = "direct"

\* C9: after App has been torn down none of the elements it injected is
\* attached to the document, whichever of its loads had completed.
C9_TeardownDetachesAll == ~appMounted => attached = {}

C9_Witness ==
    /\ ~appMounted
    /\ mounts = 1
    /\ orphans = {<<1, "scriptMermaid">>}
    /\ katexLoaded
    /\ tailwindLoaded

\* C10: a load event of a script whose App instance has been torn down
\* changes none of the readiness flags and does not call mermaid.initialize.
C10_LateLoadChangesNothing ==
    [][(orphans' # orphans /\ orphans' \subseteq orphans)
          => /\ katexLoaded' = katexLoaded
             /\ mermaidLoaded' = mermaidLoaded
             /\ tailwindLoaded' = tailwindLoaded
             /\ initCalls' = initCalls]_vars

\* C11: when a render call issued by a MermaidDiagram instance that has since
\* been unmounted settles, resolved or rejected, no stored outcome changes:
\* not diagramSvg, not renderError (svg in part_000), whether no instance or
\* a later instance is mounted at that moment.
C11_UnmountedResultNotApplied ==
    [][\A j \in inflight \ inflight' :
          ~j.live => /\ svg' = svg
                     /\ diagramSvg' = diagramSvg
                     /\ renderError' = renderError]_vars

\* a later instance shows its own diagram while a call of the torn-down
\* instance, for another chart, is still in flight
C11_Witness ==
    /\ diagMounted
    /\ svg = SvgOf(chart)
    /\ \E j \in inflight : ~j.live /\ j.chart # chart /\ j.chart # ""

\* C12: once a script has been loaded in this process (its global is
\* defined on window), no step injects an element for that script again,
\* in particular not the re-mount of App after a teardown.
C12_LoadedNotInjectedAgain ==
    [][/\ windowKatex => ~\E e \in attached' \ attached : e[2] = "scriptKatex"
       /\ windowMermaid => ~\E e \in attached' \ attached : e[2] = "scriptMermaid"]_vars

\* the loads of script s the browser has started and not finished: the one
\* of the mounted App's element and those of detached elements of earlier
\* instances
LoadsInFlight(s) ==
    {e \in orphans : e[2] = s}
        \cup (IF appMounted /\ loadState[s] = "pending" THEN {<<mounts, s>>} ELSE {})

\* C13: in every reachable state at most one load of each script is in
\* flight.
C13_OneLoadInFlight == \A s \in Scripts : Cardinality(LoadsInFlight(s)) <= 1

\* C14: no two render calls in flight at the same time were passed the same
\* identifier, whichever instances issued them.
C14_InflightIdsDistinct ==
    \A j1, j2 \in inflight : j1 # j2 => j1.id # j2.id

\* a piece of content occurs in a content
Contains(content, piece) ==
    \E k \in 0..(Len(content) - Len(piece)) :
        SubSeq(content, k + 1, k + Len(piece)) = piece

\* C15: after an effect run in which window.katex.render threw, the
\* instance's target holds a non-empty error message that contains the
\* text of what was thrown, and no exception has left any effect.
C15_ThrowCaughtAndShown ==
    /\ ~kEscaped
    /\ \A i \in kMounted :
          (i \notin kEffect /\ kThrown[i] \in Thrown)
              => /\ kTarget[i] # <<>>
                 /\ Contains(kTarget[i], <<"Erro de renderização matemática: ">>)
                 /\ Contains(kTarget[i], errorMsg(kThrown[i]))

\* the engine threw a value that is no Error in the effect of one instance
\* while the other instance holds the engine's markup of its expression
C15_Witness ==
    /\ "k1" \in kMounted
    /\ "k1" \notin kEffect
    /\ kThrown["k1"].kind = "string"
    /\ kProps["k1"].math = "\\neg Q \\rightarrow \\neg P"
    /\ "k2" \in kMounted
    /\ kThrown["k2"] = NoThrow
    /\ kTarget["k2"] = KatexMarkup("P \\rightarrow Q", TRUE)

\* the Idle condition of the MermaidDiagram inputs: no chart, or the engine
\* not ready
Idle == chart = "" \/ ~isMermaidLoaded

\* C18: whenever the inputs are Idle and the effect for them has run, the
\* component shows the waiting placeholder and diagramSvg and renderError
\* are both null.
C18_IdleShowsWaiting ==
    (diagMounted /\ ~effectPending /\ Idle)
        => /\ Display = "waiting"
           /\ diagramSvg = NULL
           /\ renderError = NULL

\* C18 as the code has it: whenever the inputs are Idle and the effect for
\* them has run, diagramSvg is null; with the engine not ready renderError
\* is null and the waiting placeholder is shown; with the engine ready and
\* the chart empty renderError is 'Nenhum diagrama Mermaid fornecido.' and
\* that message is shown instead of the placeholder.
C18_IdleOutcome ==
    (diagMounted /\ ~effectPending /\ Idle)
        => /\ diagramSvg = NULL
           /\ IF isMermaidLoaded
              THEN renderError = ErrNoChart /\ Display = "error"
              ELSE renderError = NULL /\ Display = "waiting"

\* an instance that waited for the engine with a chart, and then got the
\* engine and an empty chart
C18_Witness ==
    /\ diagMounted
    /\ ~effectPending
    /\ waited
    /\ chart = ""
    /\ isMermaidLoaded
    /\ windowMermaid
    /\ Display = "error"

\* C19: every effect run of a MermaidDiagram whose committed props have a
\* non-empty chart and isMermaidLoaded true (after a mount or a change of
\* either prop, engine present) issues exactly one render call, for the
\* current chart, with an identifier no call in flight has.
C19_OneRenderPerReadyChange ==
    [][(diagMounted /\ effectPending /\ ~effectPending' /\ diagMounted'
          /\ chart # "" /\ isMermaidLoaded /\ windowMermaid)
         => /\ Cardinality(inflight' \ inflight) = 1
            /\ \A j \in inflight' \ inflight :
                  /\ j.chart = chart
                  /\ \A k \in inflight : k.id # j.id]_vars

\* C21: with the engine present, every effect run of a KaTeXRenderer (one
\* per mount or change of the pair) makes exactly one engine call, against
\* the instance's own target; and once the effect for the current pair has
\* run with the engine returning normally, the target holds exactly the
\* engine's output for that pair.
C21_RerenderReplaces ==
    /\ [][\A i \in KInstances :
            (i \in kEffect /\ i \notin kEffect' /\ windowKatex)
                => (Len(kCalls') = 1 /\ kCalls'[1].target = i)]_vars
    /\ [](\A i \in kMounted :
            (i \notin kEffect /\ kThrown[i] = NoThrow)
                => kTarget[i] = KatexMarkup(PairOf(i)[1], PairOf(i)[2]))

\* the third effect run of an instance, after two changes of the pair
C21_Witness ==
    /\ "k1" \in kMounted
    /\ "k1" \notin kEffect
    /\ kRuns["k1"] = 3
    /\ kThrown["k1"] = NoThrow
    /\ PairOf("k1") = <<"\\neg Q \\rightarrow \\neg P", TRUE>>
    /\ Len(kCalls) = 1
    /\ kCalls[1].target = "k1"

\* C22: an effect run of a KaTeXRenderer that finds window.katex absent
\* makes no engine call and writes to no target, and the instance's target
\* is empty afterwards.
C22_AbsentEngineNoRender ==
    /\ [][\A i \in KInstances :
            (i \in kEffect /\ i \notin kEffect' /\ ~windowKatex)
                => /\ kCalls' = <<>>
                   /\ kTarget' = kTarget
                   /\ kTarget'[i] = <<>>]_vars
    /\ [](\A i \in kMounted :
            (i \notin kEffect /\ kThrown[i] = NoCall) => kTarget[i] = <<>>)

\* two effect runs of an instance, for two pairs, both without the engine
C22_Witness ==
    /\ ~windowKatex
    /\ "k1" \in kMounted
    /\ "k1" \notin kEffect
    /\ kRuns["k1"] = 2
    /\ kThrown["k1"] = NoCall
    /\ kTarget["k1"] = <<>>

C24_EffectTouchesOwnTargetOnly ==
    [][\A i \in KInstances :
          (i \in kEffect /\ i \notin kEffect')
              => /\ \A j \in KInstances \ {i} : kTarget'[j] = kTarget[j]
                 /\ diagVars' = diagVars
                 /\ legacyVars' = legacyVars
                 /\ currentPage' = currentPage
                 /\ katexLoaded' = katexLoaded
                 /\ mermaidLoaded' = mermaidLoaded
                 /\ tailwindLoaded' = tailwindLoaded]_vars

\* the last step was an effect run of k2 in which the engine threw, while
\* k1 holds the engine's markup of its own pair
C24_Witness ==
    /\ kMounted = KInstances
    /\ kEffect = {}
    /\ Len(kCalls) = 1
    /\ kCalls[1].target = "k2"
    /\ kThrown["k2"].kind = "Error"
    /\ kThrown["k1"] = NoThrow
    /\ kTarget["k1"] = KatexMarkup(PairOf("k1")[1], PairOf("k1")[2])
    /\ PairOf("k1") # PairOf("k2")

\* C25: window.mermaid.initialize is called at most once in the life of
\* the process.
C25_InitializeOnce == initCalls <= 1

\* C26: in the mounted App a script's flag is true exactly when its load
\* event has fired; a flag turns true only in the step in which that
\* script's load fires; and the Mermaid callback's initialize call happens
\* once in the step in which a Mermaid script's load fires, and in no other.
C26_FlagSetOncePerLoad ==
    /\ [](appMounted =>
            \A s \in Scripts : FlagOf(s) <=> loadState[s] = "loaded")
    /\ [][\A s \in Scripts :
            (~FlagOf(s) /\ FlagOf(s)')
                => (appMounted /\ loadState[s] = "pending"
                      /\ loadState'[s] = "loaded")]_vars
    /\ [][initCalls' # initCalls
            => /\ initCalls' = initCalls + 1
               /\ \/ (loadState["scriptMermaid"] = "pending"
                        /\ loadState'["scriptMermaid"] = "loaded")
                  \/ \E o \in orphans \ orphans' : o[2] = "scriptMermaid"]_vars

\* two of the three loads have fired, one of them of a script that did not
\* define its global
C26_Witness ==
    /\ appMounted
    /\ loadState = [scriptKatex |-> "loaded", scriptMermaid |-> "pending",
                    scriptTailwind |-> "loaded"]
    /\ katexLoaded
    /\ ~mermaidLoaded
    /\ tailwindLoaded
    /\ ~windowKatex

\* the load events of all three scripts of the mounted App have fired
AllFired == \A s \in Scripts : loadState[s] = "loaded"

\* C27: in the mounted App the loading indicator is shown exactly while
\* some script's load has not fired; once all three have fired, in any
\* order, the three flags are true and the page for currentPage is shown;
\* and the gate opens in the very step in which the last pending load
\* fires.
C27_ReadyAtLastLoad ==
    /\ [](appMounted =>
            /\ (shown # "loading") <=> AllFired
            /\ AllFired =>
                  /\ katexLoaded /\ mermaidLoaded /\ tailwindLoaded
                  /\ shown = (IF currentPage \in MethodPages
                              THEN currentPage ELSE "home"))
    /\ [][(appMounted /\ appMounted' /\ shown = "loading" /\ shown' # "loading")
            => \E s \in Scripts :
                  /\ loadState[s] = "pending"
                  /\ loadState' = [loadState EXCEPT ![s] = "loaded"]
                  /\ \A r \in Scripts \ {s} : loadState[r] = "loaded"]_vars

\* the gate has opened on a page chosen while the scripts were loading
C27_Witness ==
    /\ appMounted
    /\ AllFired
    /\ currentPage = "induction"
    /\ shown = "induction"
    /\ effectPending
    /\ ~windowMermaid

\* C28: every engine call made in an effect run of a KaTeXRenderer passes
\* the instance's current math string, the instance's own target,
\* displayMode true exactly when the prop was passed as true (false when
\* it was passed as false or omitted), and throwOnError false.
C28_CallArguments ==
    [][\A i \in KInstances :
          (i \in kEffect /\ i \notin kEffect')
              => \A n \in 1..Len(kCalls') :
                    /\ kCalls'[n].expression = kProps[i].math
                    /\ kCalls'[n].target = i
                    /\ kCalls'[n].displayMode =
                          (CASE kProps[i].displayMode = "true" -> TRUE
                             [] kProps[i].displayMode = "false" -> FALSE
                             [] kProps[i].displayMode = "omitted" -> FALSE)
                    /\ kCalls'[n].throwOnError = FALSE]_vars

\* the last step was a call for an instance mounted without the
\* displayMode prop
C28_Witness ==
    /\ Len(kCalls) = 1
    /\ kCalls[1].target = "k1"
    /\ kProps["k1"].displayMode = "omitted"
    /\ kCalls[1].expression = "P \\rightarrow Q"
    /\ kRuns["k1"] = 1

\* C29: in every reachable state of a MermaidDiagram, renderError and
\* diagramSvg are not both non-null.
C29_ErrorAndSvgExclusive == ~(renderError # NULL /\ diagramSvg # NULL)

\* a message is stored and shown, after the effect has run for a chart
\* given later, and no SVG is stored
C29_Witness ==
    /\ diagMounted
    /\ ~effectPending
    /\ renderError = ErrNoChart
    /\ diagramSvg = NULL
    /\ chart = DiagramOf("induction")
    /\ isMermaidLoaded
    /\ windowMermaid

\* C30: in App, whenever a MermaidDiagram is mounted with isMermaidLoaded
\* true and window.mermaid present (what its effect needs of the engine to
\* reach the render call), window.mermaid.initialize has run; and no step
\* issues a render call before initialize has run.
C30_InitializeBeforeRender ==
    /\ []((appMounted /\ diagMounted /\ isMermaidLoaded /\ windowMermaid)
            => initCalls >= 1)
    /\ [][inflight' \ inflight # {} => initCalls >= 1]_vars

\* the effect of a MermaidDiagram has run in the first App instance with
\* the engine loaded, present and configured once
C30_Witness ==
    /\ appMounted
    /\ mounts = 1
    /\ diagMounted
    /\ ~effectPending
    /\ isMermaidLoaded
    /\ windowMermaid
    /\ initCalls = 1
    /\ chart = DiagramOf("contrapositive")

\* C31: in part_000, every step that issues a render call starts in a
\* state in which window.mermaid.initialize has run, and while a call of
\* the mounted MermaidDiagram is in flight the engine is present and
\* configured.
C31_LegacyInitializeBeforeRender ==
    /\ [][\A j \in inflight' \ inflight : j.live => initCalls >= 1]_vars
    /\ [](\A j \in inflight : j.live => (windowMermaid /\ initCalls >= 1))

\* a render call is in flight in the second App instance, whose own Mermaid
\* script has not fired load: the engine was defined and configured by the
\* script of the first instance
C31_Witness ==
    /\ appMounted
    /\ mounts = 2
    /\ loadState["scriptMermaid"] = "pending"
    /\ ~mermaidLoaded
    /\ katexLoaded
    /\ initCalls = 1
    /\ \E j \in inflight : j.live /\ j.chart = DiagramOf("absurd")

\* the page renderPage returns behind an open gate
PageFor(page) == IF page \in MethodPages THEN page ELSE "home"

\* C32: from every state of a mounted App, unless the App is torn down or a
\* script's load never fires (its fetch failed), a state follows in which the
\* gate is Ready and the page for the current currentPage is shown; the step
\* that opens the gate keeps currentPage, whatever was selected while the
\* gate was Loading, and an id the switch does not name shows the home page.
C32_EventuallyReady ==
    /\ \A m \in 1..MaxMounts :
          (appMounted /\ mounts = m)
              ~> \/ ~appMounted
                 \/ \E s \in Scripts : loadState[s] = "failed"
                 \/ /\ mounts = m
                    /\ GateReady
                    /\ shown = PageFor(currentPage)
    /\ [][(appMounted /\ ~GateReady /\ GateReady')
             => /\ currentPage' = currentPage
                /\ shown' = PageFor(currentPage)]_vars
    /\ [](appMounted /\ GateReady /\ currentPage \in OtherIds => shown = "home")

\* the gate is open on the absurd page, just committed and its effects not
\* yet flushed, with the Navbar menu open: the page was selected while the
\* gate was Loading and mounted by the step of the last load
C32_Witness ==
    /\ appMounted
    /\ AllFired
    /\ GateReady
    /\ currentPage = "absurd"
    /\ shown = "absurd"
    /\ effectPending
    /\ mathTargets = 0
    /\ isOpen

\* a step that creates an App instance: its state starts from useState
InstanceCreated == ~appMounted /\ appMounted'

\* the load event of script s fires in the mounted instance
LoadCompletes(s) == loadState[s] = "pending" /\ loadState'[s] = "loaded"

\* C33: within an App instance, a step that changes currentPage or the
\* Navbar's isOpen leaves the three flags unchanged; a step in which a
\* script's load fires leaves currentPage and isOpen unchanged; and a flag
\* changes only in the step in which the load of its own script fires, and
\* then to true.
C33_NavigationAndLoadsAreSeparate ==
    [][~InstanceCreated =>
         /\ (currentPage' # currentPage \/ isOpen' # isOpen)
               => UNCHANGED <<katexLoaded, mermaidLoaded, tailwindLoaded>>
         /\ (\E s \in Scripts : LoadCompletes(s))
               => UNCHANGED <<currentPage, isOpen>>
         /\ \A s \in Scripts :
               FlagOf(s)' # FlagOf(s)
                  => /\ LoadCompletes(s)
                     /\ FlagOf(s)'
                     /\ \A t \in Scripts \ {s} : FlagOf(t)' = FlagOf(t)]_vars

\* navigation has happened between two loads: the induction page is
\* selected and the menu reopened while only the Mermaid load is missing
C33_Witness ==
    /\ appMounted
    /\ katexLoaded
    /\ ~mermaidLoaded
    /\ tailwindLoaded
    /\ loadState["scriptMermaid"] = "pending"
    /\ currentPage = "induction"
    /\ isOpen
    /\ shown = "loading"

\* C34: no teardown cleanup of App raises an error, whatever has been
\* detached from the document before it runs.
C34_CleanupNeverThrows == ~cleanupThrew

====
